---- MODULE Spec2Model ----
(***************************************************************************)
(* buildcc (src/build.c): a self-rebuilding build tool.                    *)
(*                                                                         *)
(* One launch of the tool is a chain of process images: main() first runs  *)
(* go_build_urself (which may recompile the binary and re-execute it) and  *)
(* then walks a target graph with build_target, running commands through   *)
(* cmd_run (fork / execvp / waitpid).                                      *)
(*                                                                         *)
(* Environment, as the model takes it:                                     *)
(*   - the filesystem is a map path -> mtime, 0 meaning "stat fails";      *)
(*   - mtimes come from one clock that never goes back, and no file is     *)
(*     dated in the future when the tool is launched;                      *)
(*   - a child that exits 0 has written the output it was asked for, with  *)
(*     the current time; a compiler that fails may or may not have left a  *)
(*     partial binary (what a failed target command leaves is not tracked: *)
(*     the tool ends on any failed target command and reads no file after);*)
(*   - waitpid succeeds and only reports exits and kills (options == 0);   *)
(*   - nothing but the tool and its children touches the files.            *)
(*                                                                         *)
(* Specifications: Spec is the tool launched (and launched again) on the   *)
(* graphs of three targets, LiveSpec is Spec with fairness for the tool's  *)
(* own steps into the walk, DiamondSpec is one walk of a diamond of four   *)
(* targets, CmdSpec is a Cmd on its own (cmd_append, cmd_print, execvp).   *)
(***************************************************************************)
EXTENDS Integers, Sequences, FiniteSets, TLC

\* ---------------------------------------------------------------- bounds
\* mtimes present at launch are drawn from 0..MaxTime; the clock starts there
MaxTime == 2
\* how many seconds the clock may advance during one exploration
MaxTicks == 1
\* how many process images one launch may chain through (execvp after execvp)
MaxImages == 2
\* how many times the user launches the tool in a row
MaxLaunches == 2

\* ---------------------------------------------------------------- names
NULL == "NULL"
\* an indeterminate pointer value (storage never written)
JUNK == "?"

\* __FILE__, argv[0] and argv[0] + ".old"
SRC == "build.c"
BIN == "./build"
OLD == "./build.old"

CC == "gcc"

Targets == 1..4
\* t->output
Out(t) == <<"out1", "out2", "out3", "out4">>[t]
Files == {SRC, BIN, OLD} \cup {Out(t) : t \in Targets}

\* ---------------------------------------------------------------- Cmd
\* struct Cmd: args is the backing storage (slot k of C is args[k+1])
Cmd0 == [args |-> <<>>, count |-> 0, capacity |-> 0]

\* CMD(...): a literal list, NULL-terminated by the macro, capacity 0
CMD(toks) == [args |-> toks \o <<NULL>>, count |-> Len(toks), capacity |-> 0]

\* realloc(args, n * sizeof(char *)): keeps the common prefix
Realloc(args, n) ==
  [k \in 1..n |-> IF k <= Len(args) THEN args[k] ELSE JUNK]

\* lines 92-103: the storage is regrown when count == capacity, to 10 slots
\* or to twice the capacity, and the capacity goes up by one
Grown(cmd) ==
  IF cmd.count = cmd.capacity
  THEN [cmd EXCEPT
          !.args = Realloc(cmd.args,
                           IF cmd.capacity = 0 THEN 10 ELSE cmd.capacity * 2),
          !.capacity = cmd.capacity + 1]
  ELSE cmd

\* line 106 writes slot count: is that slot inside the storage?
WriteInside(cmd) == Grown(cmd).count + 1 <= Len(Grown(cmd).args)

\* one trip through the while loop of cmd_internal_append (a write outside
\* the storage is undefined; here it leaves args as they are)
AppendOne(cmd, tok) ==
  LET grown == Grown(cmd)
  IN [grown EXCEPT
        !.args = IF grown.count + 1 <= Len(grown.args)
                 THEN [grown.args EXCEPT ![grown.count + 1] = tok]
                 ELSE grown.args,
        !.count = grown.count + 1]

RECURSIVE cmd_internal_append(_, _)
cmd_internal_append(cmd, toks) ==
  IF toks = <<>> THEN cmd
  ELSE cmd_internal_append(AppendOne(cmd, Head(toks)), Tail(toks))

\* the command go_build_urself assembles
SelfCmd == cmd_internal_append(Cmd0, <<CC, SRC, "-o", BIN>>)

\* ------------------------------------------------------------ cmd_print
\* the characters of the token strings the model uses
Text(tok) ==
  CASE tok = "gcc"      -> <<"g", "c", "c">>
    [] tok = "-o"       -> <<"-", "o">>
    [] tok = "out file" -> <<"o", "u", "t", " ", "f", "i", "l", "e">>
    [] tok = "main.c"   -> <<"m", "a", "i", "n", ".", "c">>
    [] tok = "build.c"  -> <<"b", "u", "i", "l", "d", ".", "c">>
    [] tok = "./build"  -> <<".", "/", "b", "u", "i", "l", "d">>

\* strchr(s, c) != NULL
strchr(s, c) == \E k \in 1..Len(s) : s[k] = c

\* print_arg without the quotes (C11 depends on them)
print_arg_bare(arg) == Text(arg)

\* lines 122-125: a token with a space goes out between single quotes
print_arg(arg) ==
  IF strchr(Text(arg), " ")
  THEN <<"'">> \o Text(arg) \o <<"'">>
  ELSE Text(arg)

\* lines 120-129: the for loop from index i on
RECURSIVE cmd_print_from(_, _)
cmd_print_from(cmd, i) ==
  IF i >= cmd.count THEN <<>>
  ELSE print_arg(cmd.args[i + 1])
         \o (IF i + 1 < cmd.count THEN <<" ">> ELSE <<>>)
         \o cmd_print_from(cmd, i + 1)

\* cmd_print: what goes to stdout, character by character
cmd_print(cmd) ==
  IF cmd.count = 0 THEN <<>> ELSE cmd_print_from(cmd, 0) \o <<"\n">>

\* --------------------------------------------------------------- execvp
\* what a read of indeterminate storage may give: a null pointer, or not
JunkReads == {NULL, "garbage"}

\* args[k] as the child reads it; a slot never written, or past the end of
\* the storage, reads as junk
Slot(args, k, junk) ==
  IF k + 1 > Len(args) THEN junk
  ELSE IF args[k + 1] = JUNK THEN junk ELSE args[k + 1]

\* line 149: execvp(cmd->args[0], cmd->args) takes the array from slot k up
\* to the first null pointer as the arguments of the program (one read past
\* the storage is followed no further)
RECURSIVE Argv(_, _, _)
Argv(args, k, junk) ==
  IF Slot(args, k, junk) = NULL THEN <<>>
  ELSE IF k + 1 > Len(args) THEN <<Slot(args, k, junk)>>
  ELSE <<Slot(args, k, junk)>> \o Argv(args, k + 1, junk)

\* ---------------------------------------------------------------- graphs
\* A graph is what main() declares: per target its deps (in DEPS order; <<>>
\* for deps == NULL) and its cmd pointer (<<>> for NULL, <<c>> for &c), and
\* the target main() builds.
NoDeps == [t \in Targets |-> <<>>]
NoCmds == [t \in Targets |-> <<>>]
Ptr(c) == <<c>>

\* main(): src_main, main_obj, main
SampleGraph ==
  [root |-> 3, used |-> {1, 2, 3},
   deps |-> [NoDeps EXCEPT ![2] = <<1>>, ![3] = <<1, 2>>],
   cmd  |-> [NoCmds EXCEPT ![2] = Ptr(CMD(<<CC, "main.c", "-c", "main.o">>)),
                           ![3] = Ptr(CMD(<<CC, "main.o", "-o", "main2">>))]]

\* a target whose Cmd was declared but never given a token
EmptyCmdGraph ==
  [root |-> 3, used |-> {1, 2, 3},
   deps |-> [NoDeps EXCEPT ![2] = <<1>>, ![3] = <<2>>],
   cmd  |-> [NoCmds EXCEPT ![2] = Ptr(Cmd0),
                           ![3] = Ptr(CMD(<<CC, "b.o", "-o", "c">>))]]

\* a target without a command that has dependencies of its own
MiddleSourceGraph ==
  [root |-> 3, used |-> {1, 2, 3},
   deps |-> [NoDeps EXCEPT ![2] = <<1>>, ![3] = <<2>>],
   cmd  |-> [NoCmds EXCEPT ![1] = Ptr(CMD(<<"gen", "a">>)),
                           ![3] = Ptr(CMD(<<CC, "b", "-o", "c">>))]]

\* D depends on B and C, both depend on A
DiamondGraph(first, second) ==
  [root |-> 4, used |-> {1, 2, 3, 4},
   deps |-> [NoDeps EXCEPT ![2] = <<1>>, ![3] = <<1>>, ![4] = <<first, second>>],
   cmd  |-> [NoCmds EXCEPT ![1] = Ptr(CMD(<<"gen", "a">>)),
                           ![2] = Ptr(CMD(<<CC, "a", "-o", "b">>)),
                           ![3] = Ptr(CMD(<<CC, "a", "-o", "c">>)),
                           ![4] = Ptr(CMD(<<CC, "b", "c", "-o", "d">>))]]

\* the declarations main() may hold in Spec, and the two diamonds
GraphNames == {"sample", "emptycmd", "middlesource"}
DiamondNames == {"diamondBC", "diamondCB"}

GraphOf(name) ==
  CASE name = "sample"       -> SampleGraph
    [] name = "emptycmd"     -> EmptyCmdGraph
    [] name = "middlesource" -> MiddleSourceGraph
    [] name = "diamondBC"    -> DiamondGraph(2, 3)
    [] name = "diamondCB"    -> DiamondGraph(3, 2)

VARIABLES
  graph,    \* which Target declarations main() holds (a name of GraphNames)
  fs,       \* path -> st_mtime, 0 when stat fails
  kind,     \* what lies at BIN and OLD: "none", "orig", "new", "partial"
  now,      \* the clock files are stamped with
  pc,       \* where the current process image is
  panicAt,  \* the panic() that ended the tool, "" while it runs
  stack,    \* the build_target activations, innermost last
  run,      \* the cmd_run activation
  child,    \* the child process of cmd_run
  hist,     \* counters over launches and images; won: a recompilation of
            \* this launch has succeeded
  boot,     \* what go_build_urself saw and did in this image
  walk,     \* what this walk did so far
  last,     \* the build_target activation that ended last
  bench     \* a Cmd handled on its own, outside any launch (CmdSpec)

\* the variables of a launch
launch == <<graph, fs, kind, now, pc, panicAt, stack, run, child, hist, boot,
            walk, last>>
vars == <<launch, bench>>

G == GraphOf(graph)
Deps(t) == G.deps[t]
\* t->cmd != NULL
HasCmd(t) == G.cmd[t] # <<>>
\* *t->cmd (build_target reads it only where t->cmd != NULL; the Cmd0 of
\* the other branch stands for no storage at all)
CmdOf(t) == IF HasCmd(t) THEN G.cmd[t][1] ELSE Cmd0

\* ---------------------------------------------------------------- files
get_file_mtime(path) == fs[path]

\* rename(2): fails when `from` does not exist, else replaces `to`; the
\* mtime travels with the file
RenameOk(f, from) == f[from] # 0
Rename(f, from, to) ==
  IF RenameOk(f, from) THEN [f EXCEPT ![to] = f[from], ![from] = 0] ELSE f
RenameKind(f, k, from, to) ==
  IF RenameOk(f, from) THEN [k EXCEPT ![to] = k[from], ![from] = "none"] ELSE k
\* unlink(2): failure (no such file) is ignored by the caller
Unlink(f, path) == [f EXCEPT ![path] = 0]
UnlinkKind(k, path) == [k EXCEPT ![path] = "none"]

\* ---------------------------------------------------------------- records
RunIdle == [st |-> "idle", self |-> FALSE, t |-> 1, cmd |-> Cmd0, ret |-> 0]
RunEntry(self, t, cmd) ==
  [st |-> "entry", self |-> self, t |-> t, cmd |-> cmd, ret |-> 0]
ChildNone == [st |-> "none", how |-> "none", code |-> 0, execFailed |-> FALSE]
NoLast == [t |-> 1, mtime |-> 0, newer |-> FALSE, ran |-> FALSE,
           forked |-> FALSE, outcome |-> "none", fsSame |-> TRUE,
           outSame |-> TRUE]
WalkFresh ==
  [ran |-> {}, spawned |-> {}, reported |-> {}, visited |-> {}, log |-> <<>>]
\* an entry of walk.log: "call" and "ret" of build_target(t), "cmp" of t
\* against its dependency d, "run" when cmd_run is called for t, "fork" and
\* "reap" of the child
Ev(e, t, d) == [e |-> e, t |-> t, d |-> d]
BootFresh(f, k) == [fs0 |-> f, kind0 |-> k, ops |-> {}]

\* the bench: cmd is the Cmd, toks the tokens its user has put into it so
\* far, literal whether it began as a CMD(...) list, appends the number of
\* tokens appended, inside whether every write of an append stayed inside
\* the storage; did is the last operation, out what cmd_print wrote, argv
\* what the child of cmd_run handed to execvp
BenchOff ==
  [st |-> "off", cmd |-> Cmd0, toks |-> <<>>, literal |-> FALSE,
   appends |-> 0, inside |-> TRUE, did |-> "none", out |-> <<>>,
   argv |-> <<>>]
BenchOn(cmd, toks, literal) ==
  [BenchOff EXCEPT !.st = "built", !.cmd = cmd, !.toks = toks,
                   !.literal = literal,
                   !.appends = IF literal THEN 0 ELSE Len(toks)]

ExitCodes == {0, 1}
Signals == {9}

\* panic(msg): the message goes to stderr and the process exits 1
Panic(msg) == pc' = "panic" /\ panicAt' = msg

\* ---------------------------------------------------------------- Init
\* The tool has just been launched. Every file is either missing or dated
\* no later than the clock; outputs of targets the graph does not declare
\* and the backup path do not exist.
Init ==
  /\ graph \in GraphNames
  /\ now = MaxTime
  /\ fs \in {f \in [Files -> 0..MaxTime] :
               /\ f[OLD] = 0
               /\ \A t \in Targets \ GraphOf(graph).used : f[Out(t)] = 0}
  /\ kind = [p \in {BIN, OLD} |->
               IF p = BIN /\ fs[BIN] # 0 THEN "orig" ELSE "none"]
  /\ pc = "boot"
  /\ panicAt = ""
  /\ stack = <<>>
  /\ run = RunIdle
  /\ child = ChildNone
  /\ hist = [launches |-> 1, images |-> 1, compiles |-> 0, won |-> FALSE]
  /\ boot = BootFresh(fs, kind)
  /\ walk = WalkFresh
  /\ last = NoLast
  /\ bench = BenchOff

\* ---------------------------------------------------------------- cmd_run
\* line 135: the early return for a Cmd without tokens
cmd_run_empty_result == 1

\* cmd_run_result without the test of the exit code (C7 depends on it)
cmd_run_result_nocode(how, code) ==
  IF how = "exited"
  THEN [panic |-> FALSE, ret |-> 1]
  ELSE IF how = "signaled"
       THEN [panic |-> TRUE, ret |-> 0]
       ELSE [panic |-> FALSE, ret |-> 0]

\* lines 158-171: the value returned for a wait status, or the panic
cmd_run_result(how, code) ==
  IF how = "exited"
  THEN [panic |-> FALSE, ret |-> IF code # 0 THEN 0 ELSE 1]
  ELSE IF how = "signaled"
       THEN [panic |-> TRUE, ret |-> 0]
       ELSE [panic |-> FALSE, ret |-> 0]

\* cmd_run on a Cmd with count == 0 returns at once
CmdRunEmpty ==
  /\ pc \in {"boot_run", "walk"}
  /\ run.st = "entry"
  /\ run.cmd.count = 0
  /\ run' = [run EXCEPT !.st = "returned", !.ret = cmd_run_empty_result]
  /\ UNCHANGED <<bench, graph, fs, kind, now, pc, panicAt, stack, child, hist,
                 boot, walk, last>>

\* fork() < 0
CmdRunForkFail ==
  /\ pc \in {"boot_run", "walk"}
  /\ run.st = "entry"
  /\ run.cmd.count # 0
  /\ Panic("fork failed")
  /\ UNCHANGED <<bench, graph, fs, kind, now, stack, run, child, hist, boot,
                 walk, last>>

\* fork() > 0 in the parent, which goes on to waitpid; the child is about
\* to call execvp
CmdRunFork ==
  /\ pc \in {"boot_run", "walk"}
  /\ run.st = "entry"
  /\ run.cmd.count # 0
  /\ run' = [run EXCEPT !.st = "wait"]
  /\ child' = [ChildNone EXCEPT !.st = "running"]
  /\ walk' = IF run.self THEN walk
             ELSE [walk EXCEPT !.spawned = @ \cup {run.t},
                               !.log = Append(@, Ev("fork", run.t, 0))]
  /\ stack' = IF run.self THEN stack
              ELSE [stack EXCEPT ![Len(stack)].forked = TRUE]
  /\ UNCHANGED <<bench, graph, fs, kind, now, pc, panicAt, hist, boot, last>>

\* Product with the compiler of the bootstrap writing to the backup path
\* (C19 depends on "-o", binary_path)
Product_backup == IF run.self THEN OLD ELSE Out(run.t)

\* the file a command is there to produce
Product == IF run.self THEN BIN ELSE Out(run.t)

\* what a child may leave at the product path: the output when it exits 0,
\* a partial binary or nothing when the compiler of the bootstrap fails
Leaves(ok) == IF ok THEN {TRUE} ELSE IF run.self THEN BOOLEAN ELSE {FALSE}

\* The child runs for some whole number of seconds (0 included: mtimes
\* have second granularity). The clock matters only where a file is
\* stamped, so it is advanced where the child writes.
Elapsed(wrote) == IF wrote THEN 0..(MaxTime + MaxTicks - now) ELSE {0}

\* the child leaves (or not) a file at the product path, stamped with the
\* time it was written
Written(wrote, what, dt) ==
  /\ now' = now + dt
  /\ fs' = IF wrote THEN [fs EXCEPT ![Product] = now + dt] ELSE fs
  /\ kind' = IF wrote /\ run.self THEN [kind EXCEPT ![BIN] = what] ELSE kind

\* lines 149-152, in the child: execvp returned, the child panics: exit(1)
ChildExecFail ==
  /\ child.st = "running"
  /\ child' = [st |-> "dead", how |-> "exited", code |-> 1,
               execFailed |-> TRUE]
  /\ UNCHANGED <<bench, graph, fs, kind, now, pc, panicAt, stack, run, hist,
                 boot, walk, last>>

\* the program ran and exited: with 0 it produced its output
ChildExit ==
  /\ child.st = "running"
  /\ \E code \in ExitCodes :
     \E wrote \in Leaves(code = 0) :
     \E dt \in Elapsed(wrote) :
       /\ child' = [st |-> "dead", how |-> "exited", code |-> code,
                    execFailed |-> FALSE]
       /\ Written(wrote, IF code = 0 THEN "new" ELSE "partial", dt)
  /\ UNCHANGED <<bench, graph, pc, panicAt, stack, run, hist, boot, walk,
                 last>>

\* the program was killed by a signal
ChildKilled ==
  /\ child.st = "running"
  /\ \E sig \in Signals :
     \E wrote \in Leaves(FALSE) :
     \E dt \in Elapsed(wrote) :
       /\ child' = [st |-> "dead", how |-> "signaled", code |-> sig,
                    execFailed |-> FALSE]
       /\ Written(wrote, "partial", dt)
  /\ UNCHANGED <<bench, graph, pc, panicAt, stack, run, hist, boot, walk,
                 last>>

\* lines 155-171: waitpid returned, the status is classified
CmdRunWait ==
  /\ pc \in {"boot_run", "walk"}
  /\ run.st = "wait"
  /\ child.st = "dead"
  /\ LET r == cmd_run_result(child.how, child.code)
     IN IF r.panic
        THEN /\ Panic("Build terminated with signal")
             /\ UNCHANGED run
        ELSE /\ run' = [run EXCEPT !.st = "returned", !.ret = r.ret]
             /\ UNCHANGED <<pc, panicAt>>
  /\ walk' = IF run.self THEN walk
             ELSE [walk EXCEPT !.log = Append(@, Ev("reap", run.t, 0))]
  /\ UNCHANGED <<bench, graph, fs, kind, now, stack, child, hist, boot, last>>

\* ------------------------------------------------------- go_build_urself
\* SelfFresh with < for <= (C6 depends on the equal case)
SelfFresh_strict == fs[SRC] < fs[BIN]

\* line 177: get_file_mtime(source_path) <= get_file_mtime(binary_path)
SelfFresh == get_file_mtime(SRC) <= get_file_mtime(BIN)

\* line 178: nothing to do, back to main()
BootNoop ==
  /\ pc = "boot"
  /\ SelfFresh
  /\ pc' = "main"
  /\ UNCHANGED <<bench, graph, fs, kind, now, panicAt, stack, run, child,
                 hist, boot, walk, last>>

\* lines 193-195: the binary cannot be moved aside
BootRenameFail ==
  /\ pc = "boot"
  /\ ~SelfFresh
  /\ ~RenameOk(fs, BIN)
  /\ Panic("Couldnt rename old binary")
  /\ UNCHANGED <<bench, graph, fs, kind, now, stack, run, child, hist, boot,
                 walk, last>>

\* lines 180-201: move the binary aside, assemble the command, enter cmd_run
BootRebuild ==
  /\ pc = "boot"
  /\ ~SelfFresh
  /\ RenameOk(fs, BIN)
  /\ fs' = Rename(fs, BIN, OLD)
  /\ kind' = RenameKind(fs, kind, BIN, OLD)
  /\ run' = RunEntry(TRUE, 1, SelfCmd)
  /\ pc' = "boot_run"
  /\ hist' = [hist EXCEPT !.compiles = @ + 1]
  /\ boot' = [boot EXCEPT !.ops = @ \cup {"rename", "compile"}]
  /\ UNCHANGED <<bench, graph, now, panicAt, stack, child, walk, last>>

\* lines 201-206: cmd_run returned; restore on failure, drop the backup
BootAfterRun ==
  /\ pc = "boot_run"
  /\ run.st = "returned"
  /\ LET failed == run.ret = 0
         f1 == IF failed THEN Rename(fs, OLD, BIN) ELSE fs
         k1 == IF failed THEN RenameKind(fs, kind, OLD, BIN) ELSE kind
     IN /\ fs' = Unlink(f1, OLD)
        /\ kind' = UnlinkKind(k1, OLD)
        /\ boot' = [boot EXCEPT
                      !.ops = @ \cup {"unlink"}
                                \cup (IF failed THEN {"restore"} ELSE {})]
        /\ hist' = [hist EXCEPT !.won = @ \/ ~failed]
  /\ pc' = "boot_exec"
  /\ UNCHANGED <<bench, graph, now, panicAt, stack, run, child, walk, last>>

\* line 208: execvp(binary_path, argv) replaces the image; the new image
\* starts in main() with the same arguments and none of the old state.
\* The binary at the path is the original or the one just compiled (from a
\* build.c taken to hold this same program), so the exec succeeds and the
\* panic of line 209 is not reached.
BootExec ==
  /\ pc = "boot_exec"
  /\ hist.images < MaxImages
  /\ pc' = "boot"
  /\ hist' = [hist EXCEPT !.images = @ + 1]
  /\ run' = RunIdle
  /\ child' = ChildNone
  /\ stack' = <<>>
  /\ boot' = BootFresh(fs, kind)
  /\ UNCHANGED <<bench, graph, fs, kind, now, panicAt, walk, last>>

\* ----------------------------------------------------------- build_target
\* ToolNewer with >= for > (C15 depends on the equal case)
ToolNewer_orEqual(t, mtime) == HasCmd(t) /\ fs[SRC] >= mtime

\* line 229: t->cmd && get_file_mtime(__FILE__) > mtime
ToolNewer(t, mtime) == HasCmd(t) /\ get_file_mtime(SRC) > mtime

\* DepNewer with the comparison turned round (C2 depends on its direction)
DepNewer_reversed(dep, mtime) == fs[Out(dep)] < mtime

\* line 237: get_file_mtime(dep->output) > mtime
DepNewer(dep, mtime) == get_file_mtime(Out(dep)) > mtime

\* Enter with the mtime the output had when the walk began, as if it were
\* remembered per target (C16 depends on the fresh stat of line 222)
Enter_cached(t) ==
  LET mtime == boot.fs0[Out(t)]
  IN [t |-> t, mtime |-> mtime,
      needs_rebuild |-> (mtime = 0) \/ ToolNewer(t, mtime),
      i |-> 1, pc |-> "deps",
      newer |-> FALSE, ran |-> FALSE, forked |-> FALSE, fs0 |-> fs]

\* lines 220-231: a fresh activation of build_target(t), about to look at
\* its first dependency. newer, ran, forked and fs0 record what happens in
\* the activation; the code does not read them.
Enter(t) ==
  LET mtime == get_file_mtime(Out(t))
  IN [t |-> t, mtime |-> mtime,
      needs_rebuild |-> (mtime = 0) \/ ToolNewer(t, mtime),
      i |-> 1, pc |-> "deps",
      newer |-> FALSE, ran |-> FALSE, forked |-> FALSE, fs0 |-> fs]

\* Decide without the test of t->cmd (C10 depends on it)
Decide_nocmdtest(needs_rebuild, hasCmd, mtime) ==
  IF needs_rebuild THEN "run" ELSE "uptodate"

\* Decide without the return of line 250 for an output that exists (C14
\* depends on it)
Decide_noaccept(needs_rebuild, hasCmd, mtime) ==
  IF needs_rebuild
  THEN IF ~hasCmd THEN "panic" ELSE "run"
  ELSE "uptodate"

\* lines 243-258: what build_target does once its dependencies are done
Decide(needs_rebuild, hasCmd, mtime) ==
  IF needs_rebuild
  THEN IF ~hasCmd
       THEN IF mtime = 0 THEN "panic" ELSE "accept"
       ELSE "run"
  ELSE "uptodate"

Top == stack[Len(stack)]

\* AtDecision without waiting for the loop over the dependencies to end
\* (C12 depends on it)
AtDecision_early ==
  /\ pc = "walk"
  /\ stack # <<>>
  /\ Top.pc = "deps"

\* line 243 is reached: the loop of lines 233-240 is over
AtDecision ==
  /\ pc = "walk"
  /\ stack # <<>>
  /\ Top.pc = "deps"
  /\ Top.i > Len(Deps(Top.t))
Decision == Decide(Top.needs_rebuild, HasCmd(Top.t), Top.mtime)

\* the record kept of an activation that ends
Ended(f, outcome) ==
  [t |-> f.t, mtime |-> f.mtime, newer |-> f.newer, ran |-> f.ran,
   forked |-> f.forked, outcome |-> outcome, fsSame |-> (fs = f.fs0),
   outSame |-> (fs[Out(f.t)] = f.fs0[Out(f.t)])]

\* return from the innermost activation; main() returns 0 after the root's
Returned(w) == [w EXCEPT !.log = Append(@, Ev("ret", Top.t, 0))]
Return(outcome) ==
  /\ stack' = SubSeq(stack, 1, Len(stack) - 1)
  /\ pc' = IF Len(stack) = 1 THEN "done" ELSE pc
  /\ last' = Ended(Top, outcome)

\* lines 60-67: main() declares the targets and calls build_target(&main)
MainBuild ==
  /\ pc = "main"
  /\ pc' = "walk"
  /\ stack' = <<Enter(G.root)>>
  /\ walk' = [walk EXCEPT !.visited = @ \cup {G.root},
                          !.log = Append(@, Ev("call", G.root, 0))]
  /\ UNCHANGED <<bench, graph, fs, kind, now, panicAt, run, child, hist, boot,
                 last>>

\* line 235: build_target(dep) for the next dependency
BuildDep ==
  /\ pc = "walk"
  /\ stack # <<>>
  /\ Top.pc = "deps"
  /\ Top.i <= Len(Deps(Top.t))
  /\ LET dep == Deps(Top.t)[Top.i]
     IN /\ stack' = [stack EXCEPT ![Len(stack)].pc = "cmp"] \o <<Enter(dep)>>
        /\ walk' = [walk EXCEPT !.visited = @ \cup {dep},
                                !.log = Append(@, Ev("call", dep, 0))]
  /\ UNCHANGED <<bench, graph, fs, kind, now, pc, panicAt, run, child, hist,
                 boot, last>>

\* lines 237-239: the dependency is done, compare its output with mtime
BuildCmp ==
  /\ pc = "walk"
  /\ stack # <<>>
  /\ Top.pc = "cmp"
  /\ LET dep == Deps(Top.t)[Top.i]
     IN stack' = [stack EXCEPT
                    ![Len(stack)].needs_rebuild = @ \/ DepNewer(dep, Top.mtime),
                    ![Len(stack)].newer = @ \/ fs[Out(dep)] > Top.mtime,
                    ![Len(stack)].i = @ + 1,
                    ![Len(stack)].pc = "deps"]
        /\ walk' = [walk EXCEPT !.log = Append(@, Ev("cmp", Top.t, dep))]
  /\ UNCHANGED <<bench, graph, fs, kind, now, pc, panicAt, run, child, hist,
                 boot, last>>

\* lines 247-248: no command and no output
BuildNoCmdPanic ==
  /\ AtDecision
  /\ Decision = "panic"
  /\ Panic("No command provided to build")
  /\ last' = Ended(Top, "panic_nocmd")
  /\ UNCHANGED <<bench, graph, fs, kind, now, stack, run, child, hist, boot,
                 walk>>

\* line 250: no command, but the output is there
BuildNoCmdReturn ==
  /\ AtDecision
  /\ Decision = "accept"
  /\ Return("accepted")
  /\ walk' = Returned(walk)
  /\ UNCHANGED <<bench, graph, fs, kind, now, panicAt, run, child, hist, boot>>

\* line 253: cmd_run(t->cmd) is called
BuildRun ==
  /\ AtDecision
  /\ Decision = "run"
  /\ stack' = [stack EXCEPT ![Len(stack)].pc = "run",
                            ![Len(stack)].ran = TRUE]
  /\ run' = RunEntry(FALSE, Top.t, CmdOf(Top.t))
  /\ child' = ChildNone
  /\ walk' = [walk EXCEPT !.ran = @ \cup {Top.t},
                          !.log = Append(@, Ev("run", Top.t, 0))]
  /\ UNCHANGED <<bench, graph, fs, kind, now, pc, panicAt, hist, boot, last>>

\* BuildFailed taking every return value for a success (C13 depends on
\* the test)
BuildFailed_never(ret) == FALSE

\* line 253: !cmd_run(t->cmd)
BuildFailed(ret) == ret = 0

\* lines 253-254: cmd_run returned
BuildAfterRun ==
  /\ pc = "walk"
  /\ stack # <<>>
  /\ Top.pc = "run"
  /\ run.st = "returned"
  /\ IF BuildFailed(run.ret)
     THEN /\ Panic("Failed to build")
          /\ last' = Ended(Top, "panic_failed")
          /\ UNCHANGED <<stack, walk>>
     ELSE /\ Return("rebuilt")
          /\ walk' = Returned(walk)
          /\ UNCHANGED panicAt
  /\ run' = RunIdle
  /\ UNCHANGED <<bench, graph, fs, kind, now, child, hist, boot>>

\* lines 255-258: nothing to do; a target with a command says so
BuildUpToDate ==
  /\ AtDecision
  /\ Decision = "uptodate"
  /\ Return("uptodate")
  /\ walk' = Returned(IF HasCmd(Top.t)
                      THEN [walk EXCEPT !.reported = @ \cup {Top.t}]
                      ELSE walk)
  /\ UNCHANGED <<bench, graph, fs, kind, now, panicAt, run, child, hist, boot>>

\* the user launches the tool again after a run that ended with exit 0
Relaunch ==
  /\ pc = "done"
  /\ hist.launches < MaxLaunches
  /\ pc' = "boot"
  /\ hist' = [launches |-> hist.launches + 1, images |-> 1, compiles |-> 0,
              won |-> FALSE]
  /\ boot' = BootFresh(fs, kind)
  /\ walk' = WalkFresh
  /\ last' = NoLast
  /\ run' = RunIdle
  /\ child' = ChildNone
  /\ UNCHANGED <<bench, graph, fs, kind, now, panicAt, stack>>

Next ==
  \/ BootNoop \/ BootRenameFail \/ BootRebuild \/ BootAfterRun \/ BootExec
  \/ MainBuild \/ BuildDep \/ BuildCmp
  \/ BuildNoCmdPanic \/ BuildNoCmdReturn \/ BuildRun \/ BuildAfterRun
  \/ BuildUpToDate
  \/ CmdRunEmpty \/ CmdRunForkFail \/ CmdRunFork \/ CmdRunWait
  \/ ChildExecFail \/ ChildExit \/ ChildKilled
  \/ Relaunch

Spec == Init /\ [][Next]_vars

\* A process that can take a step of its own takes it: an image whose
\* go_build_urself finds the binary fresh returns to main(), and main()
\* goes on to build_target.
LiveSpec == Spec /\ WF_vars(BootNoop) /\ WF_vars(MainBuild)

\* --------------------------------------------------------- DiamondSpec
\* One walk of a diamond: main() declares D on B and C (in either order),
\* both on A, each with a command that has tokens; go_build_urself has
\* found the binary fresh and returned. Only the actions of such a walk
\* are there: every target has a command with tokens, and the walk is not
\* followed by another launch.
DiamondInit ==
  /\ graph \in DiamondNames
  /\ now = MaxTime
  /\ fs \in {f \in [Files -> 0..MaxTime] : f[OLD] = 0 /\ f[BIN] = MaxTime}
  /\ kind = [p \in {BIN, OLD} |-> IF p = BIN THEN "orig" ELSE "none"]
  /\ pc = "main"
  /\ panicAt = ""
  /\ stack = <<>>
  /\ run = RunIdle
  /\ child = ChildNone
  /\ hist = [launches |-> 1, images |-> 1, compiles |-> 0, won |-> FALSE]
  /\ boot = BootFresh(fs, kind)
  /\ walk = WalkFresh
  /\ last = NoLast
  /\ bench = BenchOff

DiamondNext ==
  \/ MainBuild \/ BuildDep \/ BuildCmp
  \/ BuildRun \/ BuildAfterRun \/ BuildUpToDate
  \/ CmdRunForkFail \/ CmdRunFork \/ CmdRunWait
  \/ ChildExecFail \/ ChildExit \/ ChildKilled

DiamondSpec == DiamondInit /\ [][DiamondNext]_vars

\* ------------------------------------------------------------- CmdSpec
\* A Cmd on its own: declared as main() and go_build_urself declare theirs
\* (a CMD(...) list, or Cmd cmd = {0}), then appended to, printed and
\* handed to execvp in any order.

\* how many tokens a Cmd on the bench may hold
MaxCount == 4
\* how many tokens a CMD(...) list on the bench starts with, at most
MaxLit == 2

BenchTokens == {CC, "-o", "out file", "main.c"}
TokLists(n) == UNION {[1..k -> BenchTokens] : k \in 1..n}

CmdInit ==
  /\ bench \in {BenchOn(Cmd0, <<>>, FALSE),
                BenchOn(SelfCmd, <<CC, SRC, "-o", BIN>>, FALSE)}
               \cup {BenchOn(CMD(toks), toks, TRUE) : toks \in TokLists(MaxLit)}
  /\ graph = "sample"
  /\ now = 0
  /\ fs = [p \in Files |-> 0]
  /\ kind = [p \in {BIN, OLD} |-> "none"]
  /\ pc = "off"
  /\ panicAt = ""
  /\ stack = <<>>
  /\ run = RunIdle
  /\ child = ChildNone
  /\ hist = [launches |-> 0, images |-> 0, compiles |-> 0, won |-> FALSE]
  /\ boot = BootFresh(fs, kind)
  /\ walk = WalkFresh
  /\ last = NoLast

\* cmd_append(&cmd, tok): one token through cmd_internal_append. A write
\* outside the storage is undefined behaviour: nothing is said of the Cmd
\* after it.
CmdAppend ==
  /\ bench.st = "built"
  /\ bench.cmd.count < MaxCount
  /\ \E tok \in BenchTokens :
       bench' = IF WriteInside(bench.cmd)
                THEN [bench EXCEPT !.cmd = cmd_internal_append(@, <<tok>>),
                                   !.toks = Append(@, tok),
                                   !.appends = @ + 1,
                                   !.did = "append",
                                   !.out = <<>>, !.argv = <<>>]
                ELSE [bench EXCEPT !.st = "undefined",
                                   !.inside = FALSE,
                                   !.did = "append",
                                   !.out = <<>>, !.argv = <<>>]
  /\ UNCHANGED launch

\* cmd_print(&cmd)
CmdPrint ==
  /\ bench.st = "built"
  /\ bench' = [bench EXCEPT !.did = "print", !.out = cmd_print(bench.cmd),
                            !.argv = <<>>]
  /\ UNCHANGED launch

\* lines 147-150: the child of cmd_run (count != 0) calls execvp
CmdExec ==
  /\ bench.st = "built"
  /\ bench.cmd.count # 0
  /\ \E junk \in JunkReads :
       bench' = [bench EXCEPT !.did = "exec", !.out = <<>>,
                              !.argv = Argv(bench.cmd.args, 0, junk)]
  /\ UNCHANGED launch

CmdNext == CmdAppend \/ CmdPrint \/ CmdExec

CmdSpec == CmdInit /\ [][CmdNext]_vars

TypeOK ==
  /\ graph \in GraphNames
  /\ \A p \in Files : fs[p] \in 0..now
  /\ pc \in {"boot", "boot_run", "boot_exec", "main", "walk", "done", "panic"}
  /\ run.ret \in {0, 1}

\* ================================================================ claims
HasEnded == last.outcome # "none"
Pure(t) == Deps(t) = <<>> /\ ~HasCmd(t)
ChildFailed ==
  child.st = "dead" /\ ~(child.how = "exited" /\ child.code = 0)

\* C1 (as claimed): when the tool is run again after a walk that returned
\* normally, and no file changed in between, the second walk hands no
\* command to cmd_run, starts no child, and every activation of a target
\* that owns a command ends with the "Up to date" report.
C1_Idempotent ==
  hist.launches >= 2 =>
    /\ walk.ran = {}
    /\ walk.spawned = {}
    /\ (HasEnded /\ HasCmd(last.t)) => last.outcome = "uptodate"

\* C2: an activation of build_target(T), T owning a command, that found a
\* dependency's output newer than T's mtime (after building the
\* dependency) hands T's command to cmd_run, and a command with tokens is
\* forked; this does not depend on T's output existing or on the tool's
\* source being older than it.
C2_FreshnessPropagation ==
  (HasEnded /\ HasCmd(last.t) /\ last.newer) =>
    /\ last.ran
    /\ last.outcome \in {"rebuilt", "panic_failed"}
    /\ CmdOf(last.t).count # 0 => last.forked

\* C2, the case: T's output existed, was not older than build.c, a
\* dependency was newer, and T's command has run to success
C2_Witness ==
  /\ last.outcome = "rebuilt"
  /\ HasCmd(last.t)
  /\ last.newer
  /\ last.forked
  /\ last.mtime # 0
  /\ boot.fs0[SRC] <= last.mtime

CompileFailed ==
  /\ run.self
  /\ panicAt = "fork failed" \/ ChildFailed

\* C4 (as claimed): when the recompilation has failed and this image is
\* about to re-execute or has terminated, the original binary is at its
\* original path, with the mtime it had.
C4_Recovery ==
  (CompileFailed /\ pc \in {"boot_exec", "panic"}) =>
    /\ kind[BIN] = "orig"
    /\ fs[BIN] = boot.fs0[BIN]

\* C5 (as claimed): over all the images of one launch the recompilation
\* command is handed to cmd_run at most once.
C5_NoRetry == hist.compiles <= 1

\* C6: an image that found build.c not newer than the binary does no
\* rename, compile, unlink or exec, never panics in the bootstrap, and is
\* back in main() with every file as it was.
C6_BootNoop ==
  (boot.fs0[SRC] <= boot.fs0[BIN]) =>
    /\ boot.ops = {}
    /\ pc \notin {"boot_run", "boot_exec"}
    /\ panicAt # "Couldnt rename old binary"
    /\ pc \in {"boot", "main"} => (fs = boot.fs0 /\ kind = boot.kind0)

\* C6, the case: equal mtimes of an existing source and binary, and
\* go_build_urself has returned to main()
C6_Witness ==
  /\ pc = "main"
  /\ boot.fs0[SRC] = boot.fs0[BIN]
  /\ boot.fs0[SRC] # 0

\* C7: for a command with tokens whose child was created, cmd_run returns
\* 1 exactly when the child exited with code 0, returns 0 (the tool still
\* running) exactly when it exited with another code, and does not return
\* but ends the tool when the child was killed by a signal.
C7_Classification ==
  /\ (run.st = "returned" /\ child.st = "dead") =>
       /\ child.how = "exited"
       /\ run.ret = 1 <=> child.code = 0
       /\ run.ret = 0 <=> child.code # 0
       /\ pc # "panic"
  /\ (child.st = "dead" /\ child.how = "signaled" /\ run.st # "wait") =>
       /\ pc = "panic"
       /\ panicAt = "Build terminated with signal"
       /\ run.st # "returned"

\* C7, the case: the program ran, exited nonzero, and cmd_run returned 0
C7_Witness ==
  /\ run.st = "returned"
  /\ child.st = "dead"
  /\ ~child.execFailed
  /\ child.code # 0
  /\ run.ret = 0

\* C8 (as claimed): cmd_run on a Cmd without tokens starts no child and
\* returns 0, the value it returns for a child that exited nonzero.
C8_EmptyFails ==
  (run.st = "returned" /\ run.cmd.count = 0) =>
    /\ child.st = "none"
    /\ run.ret = cmd_run_result("exited", 1).ret

\* the panics of cmd_run in the tool's own process
CmdRunPanics == {"fork failed", "Build terminated with signal"}

\* C9 (as claimed): when the exec of token 0 fails in the forked child, or
\* the fork fails, cmd_run does not return to its caller: the tool ends
\* in cmd_run.
C9_SpawnFailureFatal ==
  /\ (child.st = "dead" /\ child.execFailed) =>
       \/ run.st = "wait"
       \/ pc = "panic" /\ panicAt \in CmdRunPanics
  /\ panicAt = "fork failed" => (pc = "panic" /\ run.st = "entry")

\* C10: an activation of build_target on a target with no dependencies and
\* no command hands nothing to cmd_run, starts no child and leaves every
\* file and mtime as it found them, whether it ends with a return or with
\* the panic for a missing output.
C10_PureSource ==
  /\ (HasEnded /\ Pure(last.t)) =>
       /\ ~last.ran
       /\ ~last.forked
       /\ last.fsSame
       /\ last.outcome \in {"uptodate", "panic_nocmd"}
  /\ (stack # <<>> /\ Pure(Top.t)) =>
       /\ Top.pc = "deps"
       /\ fs = Top.fs0
       /\ run.st \in {"idle"}

\* C10, the case: a pure source whose output exists was visited after a
\* command of the walk had already run
C10_Witness ==
  /\ HasEnded
  /\ Pure(last.t)
  /\ last.outcome = "uptodate"
  /\ walk.spawned # {}

\* a token as it should appear on the line
Shown(tok) ==
  IF \E k \in DOMAIN Text(tok) : Text(tok)[k] = " "
  THEN <<"'">> \o Text(tok) \o <<"'">>
  ELSE Text(tok)

\* the tokens as they should appear, one space between neighbours
RECURSIVE Joined(_)
Joined(toks) ==
  IF Len(toks) = 1 THEN Shown(toks[1])
  ELSE Joined(SubSeq(toks, 1, Len(toks) - 1))
         \o <<" ">> \o Shown(toks[Len(toks)])

\* C11: for a Cmd holding at least one token, cmd_print writes the tokens
\* in order with one space between neighbours, a token between single
\* quotes exactly when it contains a space, then one newline and nothing
\* else.
C11_PrintLine ==
  (bench.did = "print" /\ bench.toks # <<>>) =>
    bench.out = Joined(bench.toks) \o <<"\n">>

\* C11, the case: gcc -o 'out file' main.c
C11_Witness ==
  /\ bench.did = "print"
  /\ bench.toks = <<CC, "-o", "out file", "main.c">>
  /\ bench.out = <<"g", "c", "c", " ", "-", "o", " ",
                   "'", "o", "u", "t", " ", "f", "i", "l", "e", "'", " ",
                   "m", "a", "i", "n", ".", "c", "\n">>

\* how many entries (e, t) walk.log holds before position p
Count(e, t, p) ==
  Cardinality({q \in 1..(p - 1) : walk.log[q].e = e /\ walk.log[q].t = t})
\* every activation of build_target(d) begun before p has returned, and
\* there was one
Built(d, p) ==
  /\ Count("call", d, p) >= 1
  /\ Count("call", d, p) = Count("ret", d, p)
\* no child is alive at p: every fork before p was reaped before p
NoChild(p) ==
  Cardinality({q \in 1..(p - 1) : walk.log[q].e = "fork"})
    = Cardinality({q \in 1..(p - 1) : walk.log[q].e = "reap"})

\* C12: in a walk, build_target(X) compares X against a dependency D right
\* after build_target(D) has returned, with every activation of D over and
\* every child reaped; X's command is handed to cmd_run and forked only
\* after every dependency of X was built and compared in this way; and
\* while a child runs the tool sits in waitpid, so no second child exists.
C12_Ordered ==
  /\ \A p \in DOMAIN walk.log :
       LET ev == walk.log[p]
       IN /\ ev.e = "cmp" =>
               /\ walk.log[p - 1] = Ev("ret", ev.d, 0)
               /\ Built(ev.d, p)
               /\ NoChild(p)
          /\ ev.e \in {"run", "fork"} =>
               /\ \A k \in DOMAIN Deps(ev.t) :
                    /\ Built(Deps(ev.t)[k], p)
                    /\ \E q \in 1..(p - 1) :
                         walk.log[q] = Ev("cmp", ev.t, Deps(ev.t)[k])
               /\ NoChild(p)
  /\ child.st = "running" => (run.st = "wait" /\ pc \in {"boot_run", "walk"})

\* C12, the case: a dependency's command ran and was reaped, the dependent
\* was compared against it and then ran its own command
C12_Witness ==
  \E p, q \in DOMAIN walk.log :
    /\ p < q
    /\ walk.log[p].e = "cmp"
    /\ Count("reap", walk.log[p].d, p) >= 1
    /\ walk.log[q] = Ev("fork", walk.log[p].t, 0)

\* C13: when cmd_run has returned 0 for a target's command, the next step
\* of the tool is the panic "Failed to build", which starts no command and
\* touches no file; and a tool that has panicked takes no further step, so
\* no command of any other target is executed after the failure.
C13_FailureStops ==
  [][/\ (pc = "walk" /\ run.st = "returned" /\ run.ret = 0) =>
          /\ pc' = "panic"
          /\ panicAt' = "Failed to build"
          /\ walk' = walk
          /\ fs' = fs
     /\ pc # "panic"]_vars

\* C13, the case: the command of a dependency exited nonzero while the
\* target that depends on it had no output yet; the tool has ended
C13_Witness ==
  /\ pc = "panic"
  /\ panicAt = "Failed to build"
  /\ child.st = "dead"
  /\ ~child.execFailed
  /\ child.code # 0
  /\ Len(stack) >= 2
  /\ HasCmd(stack[1].t)
  /\ fs[Out(stack[1].t)] = 0
  /\ stack[1].t \notin walk.ran

\* C14: an activation of build_target(T), T owning no command and T's
\* output existing, returns to its caller, also when a dependency is
\* newer: it hands nothing to cmd_run, starts no child, does not end the
\* tool, and T's output has the mtime it had; until it returns it never
\* sits in cmd_run.
C14_SourceWithTimestamp ==
  /\ (HasEnded /\ ~HasCmd(last.t) /\ last.mtime # 0) =>
       /\ last.outcome \in {"accepted", "uptodate"}
       /\ last.newer => last.outcome = "accepted"
       /\ ~last.ran
       /\ ~last.forked
       /\ last.outSame
       /\ fs[Out(last.t)] = last.mtime
  /\ \A k \in DOMAIN stack :
       (~HasCmd(stack[k].t) /\ stack[k].mtime # 0) =>
         /\ stack[k].pc # "run"
         /\ fs[Out(stack[k].t)] = stack[k].mtime

\* C14, the case: the dependency of a command-less target was rebuilt and is
\* newer than the target's output, and the activation returned
C14_Witness ==
  /\ HasEnded
  /\ ~HasCmd(last.t)
  /\ last.mtime # 0
  /\ last.newer
  /\ last.outcome = "accepted"
  /\ walk.spawned # {}
  /\ pc = "walk"

\* C15: an activation of build_target(T) that found T's output and no
\* dependency newer than it hands T's command to cmd_run exactly when T
\* owns a command and build.c's mtime is strictly greater than the mtime
\* of T's output; for a T without a command build.c plays no part: nothing
\* is handed to cmd_run, the activation panics exactly when the output is
\* missing, and takes the return of line 250 exactly when a dependency is
\* newer.
C15_ToolSourceRule ==
  /\ (HasEnded /\ last.mtime # 0 /\ ~last.newer) =>
       (last.ran <=> (HasCmd(last.t) /\ fs[SRC] > last.mtime))
  /\ \A k \in DOMAIN stack :
       (stack[k].pc = "run" /\ stack[k].mtime # 0 /\ ~stack[k].newer) =>
         (HasCmd(stack[k].t) /\ fs[SRC] > stack[k].mtime)
  /\ (HasEnded /\ ~HasCmd(last.t)) =>
       /\ ~last.ran
       /\ last.outcome = "panic_nocmd" <=> last.mtime = 0
       /\ last.outcome = "accepted" <=> (last.mtime # 0 /\ last.newer)

\* C15, the case: the output was there, no dependency was newer, build.c
\* was, and the command ran to success
C15_Witness ==
  /\ HasEnded
  /\ HasCmd(last.t)
  /\ Deps(last.t) # <<>>
  /\ last.mtime # 0
  /\ ~last.newer
  /\ fs[SRC] > last.mtime
  /\ last.outcome = "rebuilt"
  /\ last.forked

\* how often walk.log holds the entry (e, t)
Times(e, t) == Count(e, t, Len(walk.log) + 1)

\* the output of t was missing or older than build.c when the walk began
Stale0(t) == boot.fs0[Out(t)] = 0 \/ boot.fs0[SRC] > boot.fs0[Out(t)]

C17_ArgvExact ==
  (bench.did = "exec" /\ (~bench.literal \/ bench.appends = 0)) =>
    bench.argv = bench.toks

\* C18 (as claimed): for a Cmd that began empty or as a CMD(...) list,
\* after any sequence of appends every write of a token stayed inside the
\* storage the Cmd owns, and slots 0..count-1 hold the initial tokens
\* followed by the appended ones, in order.
C18_AppendInside ==
  bench.st # "off" =>
    /\ bench.inside
    /\ bench.cmd.count = Len(bench.toks)
    /\ bench.cmd.count <= Len(bench.cmd.args)
    /\ \A k \in 1..Len(bench.toks) : bench.cmd.args[k] = bench.toks[k]

\* C19: once a recompilation of this launch has succeeded, the image
\* re-executed after it finds build.c not newer than the binary, is never
\* in the recompilation again and never panics in go_build_urself; it goes
\* on to the walk of the targets.
C19_Settles ==
  /\ [](hist.won =>
         /\ pc # "boot_run"
         /\ panicAt # "Couldnt rename old binary"
         /\ pc = "boot" => SelfFresh)
  /\ (hist.won /\ pc = "boot") ~> (pc = "walk")

\* C19, the case: the second image of a launch, started after the first
\* one recompiled the binary, is in the walk; the launch compiled once
C19_Witness ==
  /\ hist.won
  /\ hist.images = 2
  /\ hist.compiles = 1
  /\ kind[BIN] = "new"
  /\ pc = "walk"

\* the targets build_target(t) reaches, t included
RECURSIVE Reach(_)
Reach(t) == {t} \cup UNION {Reach(Deps(t)[k]) : k \in DOMAIN Deps(t)}

\* C20 (as claimed): when an activation of build_target(T) has returned to
\* its caller, every target reachable from T that owns a command has an
\* output that exists, is no older than the output of each of its direct
\* dependencies, and is no older than build.c.
C20_PostBuild ==
  last.outcome \in {"rebuilt", "uptodate", "accepted"} =>
    \A u \in Reach(last.t) :
      HasCmd(u) =>
        /\ fs[Out(u)] # 0
        /\ \A k \in DOMAIN Deps(u) : fs[Out(u)] >= fs[Out(Deps(u)[k])]
        /\ fs[Out(u)] >= fs[SRC]

====
